---- MODULE Spec2Model ----
(***************************************************************************)
(* Session server of the two-player pong game: rooms, quick-match queue,   *)
(* the per-room match timer and the message handlers, in the two transport *)
(* variants of the repository (socket.io: part_001 lines 1-496, raw       *)
(* WebSocket: part_001 lines 498-1008).                                    *)
(*                                                                         *)
(* A player id is the uuid drawn at connect; one per connection, so the    *)
(* connection number stands for it.  Room codes are random base-36 draws;  *)
(* the model draws a code never used before (a collision of two 6-char     *)
(* codes is not modelled).                                                 *)
(***************************************************************************)
EXTENDS Integers, Sequences, FiniteSets, TLC

\* ---------------------------------------------------------------- bounds
\* connections followed, and handler runs followed (rooms, timers, ticks and
\* scores are bounded by the number of handler runs)
NConn == 3
MaxEvents == 7
MaxRooms == 2

\* ------------------------------------------------------ program constants
SetSeconds == 120
RestSeconds == 30
PaddleStartY == 150
BallCenterX == 400
BallCenterY == 200
BallSpeed == 10
TickMs == 1000
MsPerSecond == 1000
\* `null` of `let roomId = null`
Null == 0
\* the value of a missing property (`undefined`)
Undefined == -1

Conns == 1 .. NConn
Variants == {"sio", "ws"}

VARIABLES
    variant,   \* which server file runs: "sio" or "ws"
    status,    \* per connection: "new", "open", "closed"
    roomId,    \* per connection: the handler closure's `roomId`
    rooms,     \* the `rooms` table: code -> room
    nextRoom,  \* next unused room code
    waiting,   \* the `waitingPlayers` table, in insertion order
    timers,    \* every setInterval handle created so far
    timeouts,  \* pending setTimeout callbacks, each with the room that started
    out,       \* events sent by the last step, in order
    err,       \* what the last step raised: "none", "caught", "uncaught"
    events,    \* number of handler and callback runs so far
    limit      \* number of runs the behaviour is followed for

\* the server's own state
pvars == <<status, roomId, rooms, nextRoom, waiting, timers, timeouts>>

vars == <<variant, status, roomId, rooms, nextRoom, waiting, timers, timeouts, out, err, events, limit>>

\* ------------------------------------------------------------- helpers
EmptyMap == <<>>

Put(f, k, v) ==
    [x \in (DOMAIN f) \cup {k} |-> IF x = k THEN v ELSE f[x]]

Get(f, k) ==
    IF k \in DOMAIN f THEN f[k] ELSE Undefined

Truthy(v) ==
    v # Undefined /\ v # 0

Keys(ps) ==
    [i \in 1 .. Len(ps) |-> ps[i].id]

KeySet(ps) ==
    {ps[i].id : i \in 1 .. Len(ps)}

HasKey(ps, id) ==
    id \in KeySet(ps)

IndexOf(ps, id) ==
    CHOOSE i \in 1 .. Len(ps) : ps[i].id = id

Entry(ps, id) ==
    ps[IndexOf(ps, id)]

\* obj[key] = value on an insertion-ordered object
SetKey(ps, e) ==
    IF HasKey(ps, e.id)
    THEN [ps EXCEPT ![IndexOf(ps, e.id)] = e]
    ELSE Append(ps, e)

\* a delete that removes nothing
DelKeyKept(ps, id) ==
    ps

\* a delete that empties the object
DelKeyAll(ps, id) ==
    <<>>

\* delete obj[key]
DelKey(ps, id) ==
    SelectSeq(ps, LAMBDA e : e.id # id)

\* `data.playerName || "Player"`
NameOrDefault(nm) ==
    IF nm = "" THEN "Player" ELSE nm

Msg(to, type, body) ==
    [to |-> to, type |-> type, body |-> body]

NoBody == [none |-> TRUE]

\* an uncaught exception ends the server process
crashed == err = "uncaught"

\* an exception thrown inside a message handler: the WebSocket variant wraps
\* the whole switch in try/catch, socket.io lets it reach the process
HandlerThrowBy(v) ==
    IF v = "ws" THEN "caught" ELSE "uncaught"

HandlerThrow ==
    HandlerThrowBy(variant)

InitialBall ==
    [x |-> BallCenterX, y |-> BallCenterY, speedX |-> 0, speedY |-> 0]

Player(id, nm, host) ==
    [id |-> id, ready |-> FALSE, isHost |-> host, name |-> nm]

NoMatchState == [absent |-> TRUE]

NewRoom(ps) ==
    [players |-> ps,
     ball |-> InitialBall,
     paddles |-> EmptyMap,
     scores |-> EmptyMap,
     gameStarted |-> FALSE,
     matchState |-> NoMatchState,
     matchTimer |-> 0]

GameState(room) ==
    [ball |-> room.ball, paddles |-> room.paddles, scores |-> room.scores]

RoomExists(r) ==
    r # Null /\ r \in DOMAIN rooms

\* one message to every roster member, in roster order
Broadcast(ps, type, body) ==
    [i \in 1 .. Len(ps) |-> Msg(ps[i].id, type, body)]

\* A handler run that changes nothing, sends nothing and raises nothing is
\* a stuttering step; every other run is counted, up to `limit`.
Effect ==
    /\ events < limit
    /\ pvars' # pvars \/ out' # <<>> \/ err' # "none"
    /\ events' = events + 1
    /\ UNCHANGED limit

\* ---------------------------------------------------------------- Init
Boot ==
    /\ variant \in Variants
    /\ status = [c \in Conns |-> "new"]
    /\ roomId = [c \in Conns |-> Null]
    /\ rooms = EmptyMap
    /\ nextRoom = 1
    /\ waiting = <<>>
    /\ timers = <<>>
    /\ timeouts = <<>>
    /\ out = <<>>
    /\ err = "none"
    /\ events = 0

\* the empty server, followed for MaxEvents handler runs
Init ==
    Boot /\ limit = MaxEvents

Live(c) ==
    status[c] = "open" /\ ~crashed

\* io.on('connection') / wss.on('connection')
Connect(c) ==
    /\ ~crashed
    /\ status[c] = "new"
    /\ \A d \in Conns : d < c => status[d] # "new"
    /\ status' = [status EXCEPT ![c] = "open"]
    /\ out' = <<Msg(c, "connection", [playerId |-> c])>>
    /\ err' = "none"
    /\ UNCHANGED <<variant, roomId, rooms, nextRoom, waiting, timers, timeouts>>
    /\ Effect

\* ------------------------------------------------------ handler inputs
\* the playerName a client sends; "" stands for a missing or empty name
NameOf(c) ==
    IF c = 1 THEN "Ann" ELSE IF c = 2 THEN "Bob" ELSE ""

\* a roomId string as typed by a client: a code, exact or lower-cased and
\* padded with blanks; code = Undefined is a payload without roomId.  The
\* codes tried are those drawn so far and the next one, which names no room.
JoinInputs ==
    {[code |-> k, lower |-> f, padded |-> f] :
        k \in (1 .. nextRoom) \cup {Undefined}, f \in BOOLEAN}

Trim(raw) ==
    [raw EXCEPT !.padded = FALSE]

ToUpperCase(raw) ==
    [raw EXCEPT !.lower = FALSE]

\* the key of `rooms` a string names: codes are generated upper-case, unpadded
RoomKey(raw) ==
    IF raw.lower \/ raw.padded THEN Null ELSE raw.code

\* ------------------------------------------------------------ handlers
\* create_room
CreateRoom(c, nm) ==
    /\ Live(c)
    /\ nextRoom <= MaxRooms
    /\ LET name == NameOrDefault(nm)
       IN /\ rooms' = Put(rooms, nextRoom, NewRoom(<<Player(c, name, TRUE)>>))
          /\ roomId' = [roomId EXCEPT ![c] = nextRoom]
          /\ nextRoom' = nextRoom + 1
          /\ out' = <<Msg(c, "room_created", [roomId |-> nextRoom])>>
          /\ err' = "none"
    /\ UNCHANGED <<variant, status, waiting, timers, timeouts>>
    /\ Effect

\* the error sent to every open connection instead of the sender
ErrorToEveryone(c, message) ==
    [i \in 1 .. NConn |-> Msg(i, "error", [message |-> message])]

\* `socket.emit('error', { message: ... })`
ErrorTo(c, message) ==
    <<Msg(c, "error", [message |-> message])>>

\* the first roster entry with isHost, 0 when there is none
FirstHost(ps) ==
    IF \E i \in 1 .. Len(ps) : ps[i].isHost
    THEN CHOOSE i \in 1 .. Len(ps) :
            ps[i].isHost /\ \A j \in 1 .. i - 1 : ~ps[j].isHost
    ELSE 0

\* the capacity test off by one
RoomIsFullLate(ps) ==
    Len(ps) > 2

RoomIsFull(ps) ==
    Len(ps) >= 2

\* join_room
JoinRoom(c, raw, nm) ==
    /\ Live(c)
    /\ IF raw.code = Undefined
       THEN \* data.roomId.trim() on undefined throws
            /\ out' = <<>>
            /\ err' = HandlerThrow
            /\ UNCHANGED <<roomId, rooms>>
       ELSE LET roomCode == RoomKey(ToUpperCase(Trim(raw)))
                name == NameOrDefault(nm)
            IN IF ~RoomExists(roomCode)
               THEN /\ out' = ErrorTo(c, "Room not found")
                    /\ err' = "none"
                    /\ UNCHANGED <<roomId, rooms>>
               ELSE /\ roomId' = [roomId EXCEPT ![c] = roomCode]
                    /\ err' = "none"
                    /\ IF RoomIsFull(rooms[roomCode].players)
                       THEN /\ out' = ErrorTo(c, "Room is full")
                            /\ UNCHANGED rooms
                       ELSE LET ps == SetKey(rooms[roomCode].players, Player(c, name, FALSE))
                                h == FirstHost(ps)
                                hostName == IF h = 0 THEN "Host" ELSE ps[h].name
                            IN /\ rooms' = [rooms EXCEPT ![roomCode].players = ps]
                               /\ out' = (IF h = 0 THEN <<>>
                                          ELSE <<Msg(ps[h].id, "player_joined",
                                                     [playerId |-> c, playerName |-> name])>>)
                                         \o <<Msg(c, "room_joined",
                                                  [roomId |-> roomCode, hostName |-> hostName])>>
    /\ UNCHANGED <<variant, status, nextRoom, waiting, timers, timeouts>>
    /\ Effect

\* the first waiting player that is not the caller
OtherWaiting(w, c) ==
    LET others == SelectSeq(w, LAMBDA e : e.id # c)
    IN IF others = <<>> THEN Null ELSE others[1].id

\* the pair with the host flag on the waiting player
PairRosterSwapped(c, name, other, otherName) ==
    <<Player(c, name, FALSE), Player(other, otherName, TRUE)>>

\* the pair with the host flag on both players
PairRosterBothHosts(c, name, other, otherName) ==
    <<Player(c, name, TRUE), Player(other, otherName, TRUE)>>

PairRoster(c, name, other, otherName) ==
    <<Player(c, name, TRUE), Player(other, otherName, FALSE)>>

\* find_game
FindGame(c, nm) ==
    /\ Live(c)
    /\ LET name == NameOrDefault(nm)
           w == SetKey(waiting, [id |-> c, name |-> name])
           other == OtherWaiting(w, c)
       IN IF Len(w) >= 2
          THEN /\ nextRoom <= MaxRooms
               /\ LET otherName == Entry(w, other).name
                  IN /\ rooms' = Put(rooms, nextRoom,
                                     NewRoom(PairRoster(c, name, other, otherName)))
                     /\ roomId' = [roomId EXCEPT ![c] = nextRoom]
                     /\ nextRoom' = nextRoom + 1
                     /\ waiting' = DelKey(DelKey(w, c), other)
                     /\ out' = <<Msg(c, "game_found",
                                     [roomId |-> nextRoom, isHost |-> TRUE,
                                      opponentName |-> otherName]),
                                 Msg(other, "game_found",
                                     [roomId |-> nextRoom, isHost |-> FALSE,
                                      opponentName |-> name])>>
                     /\ err' = "none"
          ELSE /\ waiting' = w
               /\ out' = <<Msg(c, "waiting_for_opponent", NoBody)>>
               /\ err' = "none"
               /\ UNCHANGED <<rooms, roomId, nextRoom>>
    /\ UNCHANGED <<variant, status, timers, timeouts>>
    /\ Effect

\* clearInterval(handle); handle 0 is `undefined`
ClearInterval(ts, h) ==
    IF h \in 1 .. Len(ts) THEN [ts EXCEPT ![h].live = FALSE] ELSE ts

\* the timer table after the disconnect handler found the roster empty:
\* only the socket.io file clears the room's interval before deleting the room
ClearOnEmptyBy(v, ts, h) ==
    IF v = "sio" THEN ClearInterval(ts, h) ELSE ts

ClearOnEmpty(ts, h) ==
    ClearOnEmptyBy(variant, ts, h)

\* the notification loop run over the roster twice
OthersOfTwice(ps, c) ==
    SelectSeq(ps \o ps, LAMBDA e : e.id # c)

OthersOf(ps, c) ==
    SelectSeq(ps, LAMBDA e : e.id # c)

\* socket.on('disconnect') / ws.on('close')
Disconnect(c) ==
    /\ Live(c)
    /\ status' = [status EXCEPT ![c] = "closed"]
    /\ waiting' = DelKey(waiting, c)
    /\ IF RoomExists(roomId[c])
       THEN LET r == roomId[c]
                ps == DelKey(rooms[r].players, c)
            IN /\ out' = Broadcast(OthersOf(rooms[r].players, c), "opponent_disconnected", NoBody)
               /\ err' = "none"
               /\ IF Len(ps) = 0
                  THEN /\ timers' = ClearOnEmpty(timers, rooms[r].matchTimer)
                       /\ rooms' = [x \in (DOMAIN rooms) \ {r} |-> rooms[x]]
                  ELSE /\ rooms' = [rooms EXCEPT ![r].players = ps]
                       /\ UNCHANGED timers
       ELSE /\ out' = <<>>
            /\ err' = "none"
            /\ UNCHANGED <<rooms, timers>>
    /\ UNCHANGED <<variant, roomId, nextRoom, timeouts>>
    /\ Effect

\* ------------------------------------------------- the STARTING transition
InitialMatchState(p0, p1) ==
    [currentSet |-> 1,
     timeRemaining |-> 2 * 60,
     isRestPeriod |-> FALSE,
     restTimeRemaining |-> 0,
     set1Scores |-> Put(Put(EmptyMap, p0, 0), p1, 0),
     set2Scores |-> Put(Put(EmptyMap, p0, 0), p1, 0)]

AllReady(ps) ==
    \A i \in 1 .. Len(ps) : ps[i].ready

\* the start test satisfied by one ready player of two
ShouldStartAnyReady(room, ps) ==
    (\E i \in 1 .. Len(ps) : ps[i].ready) /\ Len(ps) = 2

\* `if (allReady && Object.keys(players).length === 2)`
ShouldStart(room, ps) ==
    AllReady(ps) /\ Len(ps) = 2

PlayerNames(ps) ==
    [p \in KeySet(ps) |-> Entry(ps, p).name]

\* the room after the body of the start branch, `h` the new interval handle
StartedRoom(room, ps, h) ==
    LET p0 == ps[1].id
        p1 == ps[2].id
    IN [room EXCEPT
          !.players = ps,
          !.gameStarted = TRUE,
          !.paddles = Put(Put(room.paddles, p0, PaddleStartY), p1, PaddleStartY),
          !.scores = Put(Put(room.scores, p0, 0), p1, 0),
          !.matchState = InitialMatchState(p0, p1),
          !.matchTimer = h]

GameStarting(room) ==
    [i \in 1 .. Len(room.players) |->
        Msg(room.players[i].id, "game_starting",
            [gameState |-> GameState(room),
             playerIds |-> Keys(room.players),
             playerNames |-> PlayerNames(room.players),
             yourId |-> room.players[i].id])]

\* player_ready
PlayerReady(c) ==
    /\ Live(c)
    /\ IF RoomExists(roomId[c]) /\ HasKey(rooms[roomId[c]].players, c)
       THEN LET r == roomId[c]
                room == rooms[r]
                ps == [room.players EXCEPT ![IndexOf(room.players, c)].ready = TRUE]
                h == Len(timers) + 1
            IN /\ err' = "none"
               /\ IF ShouldStart(room, ps)
                  THEN /\ rooms' = [rooms EXCEPT ![r] = StartedRoom(room, ps, h)]
                       /\ timers' = Append(timers,
                              [conn |-> c, room |-> r, pids |-> Keys(ps), live |-> TRUE, ticks |-> 0])
                       /\ timeouts' = Append(timeouts,
                              [conn |-> c, room |-> r, stage |-> "release"])
                       /\ out' = GameStarting(StartedRoom(room, ps, h))
                  ELSE /\ rooms' = [rooms EXCEPT ![r].players = ps]
                       /\ out' = <<>>
                       /\ UNCHANGED <<timers, timeouts>>
       ELSE /\ out' = <<>>
            /\ err' = "none"
            /\ UNCHANGED <<rooms, timers, timeouts>>
    /\ UNCHANGED <<variant, status, roomId, nextRoom, waiting>>
    /\ Effect

\* --------------------------------------------------------- the match timer
\* Math.floor((now - lastUpdateTime) / 1000), `dt` the milliseconds since the
\* last tick (lastUpdateTime is set to now by every tick and read nowhere else)
ElapsedSeconds(dt) ==
    dt \div MsPerSecond

\* the delays the general specification draws: an interval that fired on
\* time, and one held up for the length of a whole set
TickDelays == {TickMs, SetSeconds * TickMs}

\* the countdown test as a strict comparison
ExpiredStrict(t) ==
    t < 0

\* the `<= 0` tests of the countdowns
Expired(t) ==
    t <= 0

RemoveAt(s, i) ==
    [j \in 1 .. Len(s) - 1 |-> IF j < i THEN s[j] ELSE s[j + 1]]

\* a callback body that subtracts the elapsed seconds from both countdowns
TickRoomBoth(room, pids, e) ==
    [room EXCEPT !.matchState.timeRemaining = @ - e,
                 !.matchState.restTimeRemaining = @ - e]

\* the room after one run of the interval callback's body on it
TickRoom(room, pids, e) ==
    LET ms == room.matchState
        p0 == pids[1]
        p1 == pids[2]
    IN IF ms.isRestPeriod
       THEN LET rest == ms.restTimeRemaining - e
            IN IF Expired(rest)
               THEN [room EXCEPT
                       !.matchState = [ms EXCEPT !.restTimeRemaining = rest,
                                                 !.isRestPeriod = FALSE,
                                                 !.currentSet = 2,
                                                 !.timeRemaining = 2 * 60],
                       !.scores = Put(Put(room.scores, p0, 0), p1, 0)]
               ELSE [room EXCEPT !.matchState.restTimeRemaining = rest]
       ELSE LET tr == ms.timeRemaining - e
            IN IF Expired(tr)
               THEN IF ms.currentSet = 1
                    THEN [room EXCEPT
                            !.matchState = [ms EXCEPT
                                !.timeRemaining = tr,
                                !.set1Scores = Put(Put(ms.set1Scores, p0, Get(room.scores, p0)),
                                                   p1, Get(room.scores, p1)),
                                !.isRestPeriod = TRUE,
                                !.restTimeRemaining = RestSeconds]]
                    ELSE [room EXCEPT
                            !.matchState = [ms EXCEPT
                                !.timeRemaining = tr,
                                !.set2Scores = Put(Put(ms.set2Scores, p0, Get(room.scores, p0)),
                                                   p1, Get(room.scores, p1))]]
               ELSE [room EXCEPT !.matchState.timeRemaining = tr]

\* a callback that announces the results on every run
TickEventResults(room, after) ==
    [type |-> "match_results", body |-> [matchState |-> after.matchState]]

\* the event one run of the callback broadcasts, from the room before and after
TickEvent(room, after) ==
    LET ms == room.matchState
        ms2 == after.matchState
    IN IF ms.isRestPeriod
       THEN IF Expired(ms2.restTimeRemaining)
            THEN [type |-> "set2_starting", body |-> [matchState |-> ms2]]
            ELSE [type |-> "rest_period_update",
                  body |-> [restTimeRemaining |-> ms2.restTimeRemaining]]
       ELSE IF Expired(ms2.timeRemaining)
            THEN IF ms.currentSet = 1
                 THEN [type |-> "rest_period_starting", body |-> [matchState |-> ms2]]
                 ELSE [type |-> "match_results", body |-> [matchState |-> ms2]]
            ELSE [type |-> "timer_update",
                  body |-> [timeRemaining |-> ms2.timeRemaining,
                            currentSet |-> ms2.currentSet]]

\* the callback reaches `clearInterval(rooms[roomId].matchTimer)` at set 2's end
MatchOver(room, e) ==
    /\ ~room.matchState.isRestPeriod
    /\ Expired(room.matchState.timeRemaining - e)
    /\ room.matchState.currentSet # 1

\* one firing of interval `t`
Tick(t, dt) ==
    /\ ~crashed
    /\ t \in 1 .. Len(timers)
    /\ timers[t].live
    /\ LET c == timers[t].conn
           r == roomId[c]
           e == ElapsedSeconds(dt)
           counted == [timers EXCEPT ![t].ticks = @ + 1]
       IN IF ~RoomExists(r)
          THEN \* `if (!rooms[roomId]) clearInterval(rooms[roomId].matchTimer)`
               \* reads a property of undefined: an uncaught TypeError
               /\ err' = "uncaught"
               /\ out' = <<>>
               /\ timers' = counted
               /\ UNCHANGED rooms
          ELSE IF rooms[r].matchState = NoMatchState
          THEN \* rooms[roomId].matchState.lastUpdateTime on a room never started
               /\ err' = "uncaught"
               /\ out' = <<>>
               /\ timers' = counted
               /\ UNCHANGED rooms
          ELSE LET after == TickRoom(rooms[r], timers[t].pids, e)
                   ev == TickEvent(rooms[r], after)
               IN /\ rooms' = [rooms EXCEPT ![r] = after]
                  /\ out' = Broadcast(after.players, ev.type, ev.body)
                  /\ err' = "none"
                  /\ timers' = IF MatchOver(rooms[r], e)
                               THEN ClearInterval(counted, rooms[r].matchTimer)
                               ELSE counted
    /\ UNCHANGED <<variant, status, roomId, nextRoom, waiting, timeouts>>
    /\ Effect

\* ------------------------------------------------------- the ball release
Signs == {1, -1}

\* setTimeout(..., 2000) of the start branch
BallRelease(i) ==
    /\ ~crashed
    /\ i \in 1 .. Len(timeouts)
    /\ timeouts[i].stage = "release"
    /\ LET c == timeouts[i].conn
           r == roomId[c]
       IN IF RoomExists(r)
          THEN \E sx \in Signs, sy \in Signs :
                 LET b == [x |-> BallCenterX, y |-> BallCenterY,
                           speedX |-> BallSpeed * sx, speedY |-> BallSpeed * sy]
                 IN /\ rooms' = [rooms EXCEPT ![r].ball = b]
                    /\ out' = Broadcast(rooms[r].players, "ball_moving", [ball |-> b])
                    /\ timeouts' = Append(RemoveAt(timeouts, i),
                                          [conn |-> c, room |-> timeouts[i].room,
                                           stage |-> "repeat"])
                    /\ err' = "none"
          ELSE /\ out' = <<>>
               /\ timeouts' = RemoveAt(timeouts, i)
               /\ err' = "none"
               /\ UNCHANGED rooms
    /\ UNCHANGED <<variant, status, roomId, nextRoom, waiting, timers>>
    /\ Effect

\* the nested setTimeout(..., 500)
BallRepeat(i) ==
    /\ ~crashed
    /\ i \in 1 .. Len(timeouts)
    /\ timeouts[i].stage = "repeat"
    /\ LET c == timeouts[i].conn
           r == roomId[c]
       IN /\ out' = IF RoomExists(r)
                    THEN Broadcast(rooms[r].players, "ball_moving", [ball |-> rooms[r].ball])
                    ELSE <<>>
          /\ err' = "none"
    /\ timeouts' = RemoveAt(timeouts, i)
    /\ UNCHANGED <<variant, status, roomId, rooms, nextRoom, waiting, timers>>
    /\ Effect

\* ------------------------------------------------------- in-game handlers
PaddleYs == {170}

Balls == {[x |-> 410, y |-> 190, speedX |-> 10, speedY |-> -10]}

\* the first roster member that is not the sender (the loops `break` after it)
FirstOther(ps, c) ==
    LET others == OthersOf(ps, c)
    IN IF others = <<>> THEN <<>> ELSE <<others[1]>>

\* the guard shared by paddle_move and ball_update
InStartedRoom(c) ==
    /\ RoomExists(roomId[c])
    /\ HasKey(rooms[roomId[c]].players, c)
    /\ rooms[roomId[c]].gameStarted

\* paddle_move
PaddleMove(c, y) ==
    /\ Live(c)
    /\ IF InStartedRoom(c)
       THEN LET r == roomId[c]
            IN IF c \notin DOMAIN rooms[r].paddles
               THEN \* paddles[playerId].y = ... on a member without a paddle entry
                    /\ out' = <<>>
                    /\ err' = HandlerThrow
                    /\ UNCHANGED rooms
               ELSE /\ rooms' = [rooms EXCEPT ![r].paddles = Put(@, c, y)]
                    /\ out' = Broadcast(FirstOther(rooms[r].players, c),
                                        "opponent_move", [y |-> y])
                    /\ err' = "none"
       ELSE /\ out' = <<>>
            /\ err' = "none"
            /\ UNCHANGED rooms
    /\ UNCHANGED <<variant, status, roomId, nextRoom, waiting, timers, timeouts>>
    /\ Effect

\* ball_update without the host check
MayPublishBallAnyone(room, c) ==
    TRUE

\* `if (rooms[roomId].players[playerId].isHost)` of ball_update
MayPublishBall(room, c) ==
    Entry(room.players, c).isHost

\* what ball_update does to the room table and what it sends
BallUpdateResult(c, b) ==
    IF InStartedRoom(c) /\ MayPublishBall(rooms[roomId[c]], c)
    THEN [rooms |-> [rooms EXCEPT ![roomId[c]].ball = b],
          out |-> Broadcast(FirstOther(rooms[roomId[c]].players, c),
                            "ball_update", [ball |-> b])]
    ELSE [rooms |-> rooms, out |-> <<>>]

\* ball_update
BallUpdate(c, b) ==
    /\ Live(c)
    /\ rooms' = BallUpdateResult(c, b).rooms
    /\ out' = BallUpdateResult(c, b).out
    /\ err' = "none"
    /\ UNCHANGED <<variant, status, roomId, nextRoom, waiting, timers, timeouts>>
    /\ Effect

\* the payloads of score_update the model sends: the sender's own score
ScoreValues == {0, 1}

ScoreInputs(c) ==
    {Put(EmptyMap, c, v) : v \in ScoreValues}

\* `for (const pid in data.scores) scores[pid] = data.scores[pid]`
MergeScores(scores, sc) ==
    [p \in (DOMAIN scores) \cup (DOMAIN sc) |->
        IF p \in DOMAIN sc THEN sc[p] ELSE scores[p]]

\* the score broadcast skipping the first roster member
ScoreRecipientsRest(room) ==
    Tail(room.players)

\* the recipients of the score broadcast
ScoreRecipients(room) ==
    room.players

\* score_update
ScoreUpdate(c, sc) ==
    /\ Live(c)
    /\ IF RoomExists(roomId[c])
       THEN LET r == roomId[c]
                merged == MergeScores(rooms[r].scores, sc)
            IN /\ rooms' = [rooms EXCEPT ![r].scores = merged]
               /\ out' = Broadcast(ScoreRecipients(rooms[r]), "score_update",
                                   [scores |-> merged])
               /\ err' = "none"
       ELSE /\ out' = <<>>
            /\ err' = "none"
            /\ UNCHANGED rooms
    /\ UNCHANGED <<variant, status, roomId, nextRoom, waiting, timers, timeouts>>
    /\ Effect

\* `(scores[scoringPlayerId] || 0) + 1`
Incremented(scores, p) ==
    (IF Truthy(Get(scores, p)) THEN scores[p] ELSE 0) + 1

\* player_scored
PlayerScored(c, p) ==
    /\ Live(c)
    /\ IF RoomExists(roomId[c]) /\ HasKey(rooms[roomId[c]].players, p)
       THEN LET r == roomId[c]
                scores == Put(rooms[r].scores, p, Incremented(rooms[r].scores, p))
            IN /\ rooms' = [rooms EXCEPT ![r].scores = scores]
               /\ out' = Broadcast(ScoreRecipients(rooms[r]), "score_update",
                                   [scores |-> scores])
               /\ err' = "none"
       ELSE /\ out' = <<>>
            /\ err' = "none"
            /\ UNCHANGED rooms
    /\ UNCHANGED <<variant, status, roomId, nextRoom, waiting, timers, timeouts>>
    /\ Effect

\* ------------------------------------------------------------ behaviours
\* connection, room and queue handlers
Lobby ==
    \/ \E c \in Conns : Connect(c)
    \/ \E c \in Conns : CreateRoom(c, NameOf(c))
    \/ \E c \in Conns, raw \in JoinInputs : JoinRoom(c, raw, NameOf(c))
    \/ \E c \in Conns : FindGame(c, NameOf(c))
    \/ \E c \in Conns : PlayerReady(c)
    \/ \E c \in Conns : Disconnect(c)

\* in-game handlers
Play ==
    \/ \E c \in Conns, y \in PaddleYs : PaddleMove(c, y)
    \/ \E c \in Conns, b \in Balls : BallUpdate(c, b)
    \/ \E c \in Conns : \E sc \in ScoreInputs(c) : ScoreUpdate(c, sc)
    \/ \E c \in Conns, p \in Conns : PlayerScored(c, p)

Next == Lobby \/ Play

\* every message handler, from the empty server
Spec == Init /\ [][Next]_vars

NextQuickMatch ==
    \/ \E c \in Conns : Connect(c)
    \/ \E c \in Conns : FindGame(c, NameOf(c))
    \/ \E c \in Conns : Disconnect(c)

\* connections, the quick-match queue and nothing else
SpecQuickMatch == Init /\ [][NextQuickMatch]_vars

\* the exact code of room `k`, as a join_room payload
ExactCode(k) == [code |-> k, lower |-> FALSE, padded |-> FALSE]

\* Two clients connect, one creates a room, the other joins it with the
\* code, and both report ready: the way into a started match.
Opening ==
    \/ events = 0 /\ Connect(1)
    \/ events = 1 /\ Connect(2)
    \/ events = 2 /\ CreateRoom(1, NameOf(1))
    \/ events = 3 /\ JoinRoom(2, ExactCode(1), NameOf(2))
    \/ events = 4 /\ PlayerReady(1)
    \/ events = 5 /\ PlayerReady(2)

\* the messages of the opening, in order
OpeningEvents ==
    <<"connection", "connection", "create_room", "join_room", "player_ready", "player_ready">>

OpeningLen == Len(OpeningEvents)

AfterOpening == events >= OpeningLen

\* handler runs followed once the match has started
MatchEvents == MaxEvents - 4

InitMatch ==
    Boot /\ limit = OpeningLen + MatchEvents

NextMatch ==
    \/ Opening
    \/ \E c \in Conns : AfterOpening /\ Connect(c)
    \/ \E c \in Conns : AfterOpening /\ CreateRoom(c, NameOf(c))
    \/ \E c \in Conns, raw \in JoinInputs : AfterOpening /\ JoinRoom(c, raw, NameOf(c))
    \/ \E c \in Conns : AfterOpening /\ FindGame(c, NameOf(c))
    \/ \E c \in Conns : AfterOpening /\ PlayerReady(c)
    \/ \E c \in Conns : AfterOpening /\ Disconnect(c)
    \/ \E c \in Conns, y \in PaddleYs : AfterOpening /\ PaddleMove(c, y)
    \/ \E c \in Conns, b \in Balls : AfterOpening /\ BallUpdate(c, b)
    \/ \E c \in Conns : \E sc \in ScoreInputs(c) : AfterOpening /\ ScoreUpdate(c, sc)
    \/ \E c \in Conns, p \in Conns : AfterOpening /\ PlayerScored(c, p)
    \/ \E t \in 1 .. Len(timers), dt \in TickDelays : AfterOpening /\ Tick(t, dt)
    \/ \E i \in 1 .. Len(timeouts) : AfterOpening /\ BallRelease(i)
    \/ \E i \in 1 .. Len(timeouts) : AfterOpening /\ BallRepeat(i)

\* every handler and callback, from a started match
SpecMatch == InitMatch /\ [][NextMatch]_vars

\* ticks followed by the schedule: both sets, the rest and a few more
ScheduleTicks == 2 * SetSeconds + RestSeconds + MaxEvents

InitSchedule ==
    Boot /\ limit = OpeningLen + ScheduleTicks

NextSchedule ==
    \/ Opening
    \/ AfterOpening /\ Tick(1, TickMs)

\* a started match whose interval fires on time, nothing else happening
SpecSchedule == InitSchedule /\ [][NextSchedule]_vars

\* Three clients connect, one creates a room, the second joins it and the
\* third is refused: the way into a full room with a refused joiner.
OpeningCrowded ==
    \/ events = 0 /\ Connect(1)
    \/ events = 1 /\ Connect(2)
    \/ events = 2 /\ Connect(3)
    \/ events = 3 /\ CreateRoom(1, NameOf(1))
    \/ events = 4 /\ JoinRoom(2, ExactCode(1), NameOf(2))
    \/ events = 5 /\ JoinRoom(3, ExactCode(1), NameOf(3))

CrowdedEvents ==
    <<"connection", "connection", "connection", "create_room", "join_room", "join_room">>

CrowdedLen == Len(CrowdedEvents)

AfterCrowded == events >= CrowdedLen

InitCrowded ==
    Boot /\ limit = CrowdedLen + MatchEvents

NextCrowded ==
    \/ OpeningCrowded
    \/ \E c \in Conns : AfterCrowded /\ CreateRoom(c, NameOf(c))
    \/ \E c \in Conns, raw \in JoinInputs : AfterCrowded /\ JoinRoom(c, raw, NameOf(c))
    \/ \E c \in Conns : AfterCrowded /\ FindGame(c, NameOf(c))
    \/ \E c \in Conns : AfterCrowded /\ PlayerReady(c)
    \/ \E c \in Conns : AfterCrowded /\ Disconnect(c)

\* the room handlers, from a full room and a refused third client
SpecCrowded == InitCrowded /\ [][NextCrowded]_vars

NextQuickReady ==
    \/ NextQuickMatch
    \/ \E c \in Conns : PlayerReady(c)

\* the quick-match queue and player_ready
SpecQuickReady == Init /\ [][NextQuickReady]_vars

\* handler and callback runs followed to the end of a match and past it
FinishEvents == MaxEvents - 2

InitFinish ==
    Boot /\ limit = OpeningLen + FinishEvents

NextFinish ==
    \/ Opening
    \/ \E t \in 1 .. Len(timers), dt \in TickDelays : AfterOpening /\ Tick(t, dt)
    \/ \E c \in Conns : AfterOpening /\ PlayerReady(c)
    \/ \E c \in Conns, p \in Conns : AfterOpening /\ PlayerScored(c, p)
    \/ \E c \in Conns : AfterOpening /\ Disconnect(c)

\* a started match with its interval, scoring, repeated player_ready and
\* disconnects
SpecFinish == InitFinish /\ [][NextFinish]_vars

InitSets ==
    Boot /\ limit = OpeningLen + FinishEvents

NextSets ==
    \/ Opening
    \/ \E t \in 1 .. Len(timers), dt \in TickDelays : AfterOpening /\ Tick(t, dt)
    \/ \E c \in Conns : \E sc \in ScoreInputs(c) : AfterOpening /\ ScoreUpdate(c, sc)
    \/ \E c \in Conns, p \in Conns : AfterOpening /\ PlayerScored(c, p)
    \/ \E c \in Conns, y \in PaddleYs : AfterOpening /\ PaddleMove(c, y)
    \/ \E c \in Conns : AfterOpening /\ Connect(c)
    \/ \E c \in Conns, raw \in JoinInputs : AfterOpening /\ JoinRoom(c, raw, NameOf(c))
    \/ \E c \in Conns : AfterOpening /\ Disconnect(c)

\* a started match with its interval, scoring and paddles, while players
\* leave and others join
SpecSets == InitSets /\ [][NextSets]_vars

\* callback and handler runs followed from the start of the match: the
\* release, the departure of both players and the repeat
ReleaseEvents == MaxEvents - 3

InitRelease ==
    Boot /\ limit = OpeningLen + ReleaseEvents

NextRelease ==
    \/ Opening
    \/ \E i \in 1 .. Len(timeouts) : AfterOpening /\ BallRelease(i)
    \/ \E i \in 1 .. Len(timeouts) : AfterOpening /\ BallRepeat(i)
    \/ \E c \in Conns : AfterOpening /\ Connect(c)
    \/ \E c \in Conns : AfterOpening /\ CreateRoom(c, NameOf(c))
    \/ \E c \in Conns, raw \in JoinInputs : AfterOpening /\ JoinRoom(c, raw, NameOf(c))
    \/ \E c \in Conns : AfterOpening /\ PlayerReady(c)
    \/ \E c \in Conns : AfterOpening /\ Disconnect(c)

\* a started match and its pending ball release, while players change rooms,
\* leave and report ready again
SpecRelease == InitRelease /\ [][NextRelease]_vars

\* an interval firing held up by half a period
LateTickMs == TickMs + TickMs \div 2

InitDrift ==
    Boot /\ limit = OpeningLen + ScheduleTicks

NextDrift ==
    \/ Opening
    \/ AfterOpening /\ Tick(1, LateTickMs)

\* a started match whose interval fires every second and a half
SpecDrift == InitDrift /\ [][NextDrift]_vars

\* ---------------------------------------------------------------- claims
OutTypes ==
    {out[i].type : i \in 1 .. Len(out)}

SentTo(o, p, type) ==
    \E i \in 1 .. Len(o) : o[i].to = p /\ o[i].type = type

Hosts(ps) ==
    {i \in 1 .. Len(ps) : ps[i].isHost}

Started(r) ==
    r \in DOMAIN rooms /\ rooms[r].gameStarted

\* C1: in every reachable state every room's players map has at most 2 entries.
C1_RosterAtMostTwo ==
    \A r \in DOMAIN rooms : Len(rooms[r].players) <= 2

\* a room holds two players and a further join_room was just refused
C1_Witness ==
    /\ \E r \in DOMAIN rooms : Len(rooms[r].players) = 2
    /\ \E i \in 1 .. Len(out) :
          out[i].type = "error" /\ out[i].body.message = "Room is full"

\* C2: gameStarted becomes true only in a step that leaves the room with
\* exactly two players, both ready, and a started room never goes back to
\* not started.
C2_StartedOnlyWhenBothReady ==
    [][\A r \in DOMAIN rooms' :
          /\ Started(r) => rooms'[r].gameStarted
          /\ (rooms'[r].gameStarted /\ ~Started(r))
                => /\ Len(rooms'[r].players) = 2
                   /\ AllReady(rooms'[r].players)]_vars

\* a started room that has since lost a player is still started
C2_Witness ==
    \E r \in DOMAIN rooms : rooms[r].gameStarted /\ Len(rooms[r].players) < 2

\* C3: the STARTING transition runs once per room: a player_ready handled
\* for a room that has already started leaves the room's live scores and
\* matchState as they are, starts no further interval and sends no
\* game_starting.
C3_StartsOnce ==
    [][\A c \in Conns :
          (PlayerReady(c) /\ Started(roomId[c])) =>
              /\ rooms'[roomId[c]].scores = rooms[roomId[c]].scores
              /\ rooms'[roomId[c]].matchState = rooms[roomId[c]].matchState
              /\ timers' = timers
              /\ \A i \in 1 .. Len(out') : out'[i].type # "game_starting"]_vars

\* C4: every existing room has exactly one player with isHost = true.
C4_ExactlyOneHost ==
    \A r \in DOMAIN rooms : Cardinality(Hosts(rooms[r].players)) = 1

\* ball_update from `c` is honoured: c is a member of a started room and its host
C5_Honoured(c) ==
    /\ InStartedRoom(c)
    /\ Entry(rooms[roomId[c]].players, c).isHost

\* C5: in every reachable state, a ball_update from the host of a started
\* room replaces that room's ball, leaves the rest of the room table alone and
\* is sent to the other members only; from anyone else it changes nothing and
\* sends nothing.
C5_BallAuthority ==
    \A c \in Conns, b \in Balls :
        Live(c) =>
            LET res == BallUpdateResult(c, b)
            IN IF C5_Honoured(c)
               THEN /\ res.rooms = [rooms EXCEPT ![roomId[c]].ball = b]
                    /\ Len(res.out) <= 1
                    /\ {res.out[i].to : i \in 1 .. Len(res.out)}
                          = KeySet(rooms[roomId[c]].players) \ {c}
                    /\ \A i \in 1 .. Len(res.out) :
                          /\ res.out[i].type = "ball_update"
                          /\ res.out[i].body = [ball |-> b]
               ELSE res.rooms = rooms /\ res.out = <<>>

\* the host's ball_update was applied and relayed to the non-host, while the
\* non-host is still connected and also a member of the started room
C5_Witness ==
    \E r \in DOMAIN rooms :
        /\ rooms[r].gameStarted
        /\ rooms[r].ball \in Balls
        /\ Len(out) = 1
        /\ out[1].type = "ball_update"
        /\ HasKey(rooms[r].players, out[1].to)
        /\ ~Entry(rooms[r].players, out[1].to).isHost
        /\ Live(out[1].to)
        /\ roomId[out[1].to] = r

\* C6: after any sequence of find_game events no room has 3 members and no
\* player id is in the rosters of two rooms.
C6_NoDoubleAssignment ==
    /\ \A r \in DOMAIN rooms : Len(rooms[r].players) < 3
    /\ \A r1 \in DOMAIN rooms, r2 \in DOMAIN rooms :
          r1 # r2 => KeySet(rooms[r1].players) \cap KeySet(rooms[r2].players) = {}

\* every roster member of room `r` is among the recipients of `type` in `out`
Broadcasted(r, type) ==
    /\ type \in OutTypes
    /\ \A p \in KeySet(rooms[r].players) : SentTo(out, p, type)

\* C7: with the interval firing once a second on a match started once,
\* rest_period_starting is broadcast on tick 120, set2_starting on tick 150,
\* match_results on tick 270, and on no other tick.
C7_Schedule ==
    (AfterOpening /\ Len(timers) = 1 /\ 1 \in DOMAIN rooms) =>
        LET n == timers[1].ticks
        IN /\ ("rest_period_starting" \in OutTypes) <=> (n = SetSeconds)
           /\ ("set2_starting" \in OutTypes) <=> (n = SetSeconds + RestSeconds)
           /\ ("match_results" \in OutTypes) <=> (n = SetSeconds + RestSeconds + SetSeconds)
           /\ \A type \in {"rest_period_starting", "set2_starting", "match_results"} :
                 type \in OutTypes => Broadcasted(1, type)

\* tick 270 broadcast match_results to both players
C7_Witness ==
    /\ Len(timers) = 1
    /\ timers[1].ticks = SetSeconds + RestSeconds + SetSeconds
    /\ 1 \in DOMAIN rooms
    /\ Len(rooms[1].players) = 2
    /\ Broadcasted(1, "match_results")

\* the step is a score_update or a player_scored handler run
ScoreStep ==
    \/ \E c \in Conns : \E sc \in ScoreInputs(c) : ScoreUpdate(c, sc)
    \/ \E c \in Conns, p \in Conns : PlayerScored(c, p)

\* C8: when score_update or player_scored changes a room's live scores, every
\* member of the room is sent exactly one score_update, and every event sent
\* carries the room's scores as they are after the change.
C8_ScoreConvergence ==
    [][ScoreStep =>
          \A r \in DOMAIN rooms :
              rooms'[r].scores # rooms[r].scores =>
                  /\ \A p \in KeySet(rooms'[r].players) :
                        Cardinality({i \in 1 .. Len(out') : out'[i].to = p}) = 1
                  /\ \A i \in 1 .. Len(out') :
                        /\ out'[i].type = "score_update"
                        /\ out'[i].body = [scores |-> rooms'[r].scores]
                        /\ HasKey(rooms'[r].players, out'[i].to)]_vars

\* both members of a started room were just sent the same non-zero scores
C8_Witness ==
    \E r \in DOMAIN rooms :
        /\ rooms[r].gameStarted
        /\ Len(rooms[r].players) = 2
        /\ \E p \in DOMAIN rooms[r].scores : rooms[r].scores[p] = 1
        /\ out = Broadcast(rooms[r].players, "score_update",
                           [scores |-> rooms[r].scores])

\* C9: when the connection of a player in a room's roster closes, the player
\* leaves the roster and every remaining member is sent opponent_disconnected.
C9_CloseLeavesRoster ==
    [][\A c \in Conns :
          (status[c] = "open" /\ status'[c] = "closed") =>
              \A r \in DOMAIN rooms :
                  HasKey(rooms[r].players, c) =>
                      /\ r \in DOMAIN rooms' => ~HasKey(rooms'[r].players, c)
                      /\ \A p \in KeySet(rooms[r].players) \ {c} :
                            SentTo(out', p, "opponent_disconnected")]_vars

\* C10: an interval ticks only while the room it was started for exists.
C10_NoTickAfterDestroy ==
    [][\A t \in 1 .. Len(timers) :
          timers'[t].ticks > timers[t].ticks
             => timers[t].room \in DOMAIN rooms]_vars

\* C11: a connection close raises no error and sends each player at most one
\* opponent_disconnected; when the closing connection has no room, or its
\* room is no longer in the table, it sends nothing and changes no room.
C11_CloseIsQuiet ==
    [][\A c \in Conns :
          (status[c] = "open" /\ status'[c] = "closed") =>
              /\ err' = "none"
              /\ \A i \in 1 .. Len(out') : out'[i].type = "opponent_disconnected"
              /\ \A p \in Conns :
                    Cardinality({i \in 1 .. Len(out') : out'[i].to = p}) <= 1
              /\ ~RoomExists(roomId[c]) => (out' = <<>> /\ rooms' = rooms)]_vars

\* every client has closed, the refused joiner still pointing at the room
\* that was deleted when its two members left; the last close sent nothing
C11_Witness ==
    /\ \A c \in 1 .. 3 : status[c] = "closed"
    /\ roomId[3] = 1
    /\ ~RoomExists(1)
    /\ out = <<>>
    /\ err = "none"

\* C12: a join_room whose code, trimmed and upper-cased, names no room in
\* the table sends error 'Room not found' to the joiner and to nobody else,
\* raises nothing, and leaves the room table, the waiting queue and every
\* connection's room association (the joiner's included) as they were.
C12_RoomNotFound ==
    [][\A c \in Conns, raw \in JoinInputs :
          (/\ JoinRoom(c, raw, NameOf(c))
           /\ raw.code # Undefined
           /\ raw.code \notin DOMAIN rooms) =>
              /\ out' = <<[to |-> c, type |-> "error",
                           body |-> [message |-> "Room not found"]]>>
              /\ err' = "none"
              /\ rooms' = rooms
              /\ waiting' = waiting
              /\ roomId' = roomId]_vars

\* the refused third client, still pointing at the full room, asked for an
\* unknown code and was told 'Room not found'; the full room is as it was
C12_Witness ==
    /\ out = <<[to |-> 3, type |-> "error", body |-> [message |-> "Room not found"]]>>
    /\ roomId[3] = 1
    /\ RoomExists(1)
    /\ Len(rooms[1].players) = 2

\* C13: a join_room that names a room with two players sends error 'Room is
\* full' to the joiner and to nobody else, raises nothing, and leaves the
\* room table (every roster, game state and matchState) as it was.
C13_RoomFull ==
    [][\A c \in Conns, raw \in JoinInputs :
          (/\ JoinRoom(c, raw, NameOf(c))
           /\ raw.code \in DOMAIN rooms
           /\ Len(rooms[raw.code].players) = 2) =>
              /\ out' = <<[to |-> c, type |-> "error",
                           body |-> [message |-> "Room is full"]]>>
              /\ err' = "none"
              /\ rooms' = rooms]_vars

\* the third client was refused by a room whose match has started
C13_Witness ==
    /\ out = <<[to |-> 3, type |-> "error", body |-> [message |-> "Room is full"]]>>
    /\ Started(1)
    /\ rooms[1].matchState # NoMatchState
    /\ KeySet(rooms[1].players) = {1, 2}

\* C14: a join_room that succeeds on a room with one player leaves the
\* joiner in the roster as a not-ready non-host, sends player_joined with the
\* joiner's id and name to the room's host, and sends the joiner room_joined
\* with the host's name as hostName.
C14_JoinSucceeds ==
    [][\A c \in Conns, raw \in JoinInputs :
          (/\ JoinRoom(c, raw, NameOf(c))
           /\ raw.code \in DOMAIN rooms
           /\ Len(rooms[raw.code].players) = 1) =>
              LET r == raw.code
                  before == rooms[r].players
                  name == NameOrDefault(NameOf(c))
              IN /\ HasKey(rooms'[r].players, c)
                 /\ Entry(rooms'[r].players, c)
                       = [id |-> c, ready |-> FALSE, isHost |-> FALSE, name |-> name]
                 /\ before[1].isHost
                 /\ out' = <<[to |-> before[1].id, type |-> "player_joined",
                              body |-> [playerId |-> c, playerName |-> name]],
                             [to |-> c, type |-> "room_joined",
                              body |-> [roomId |-> r, hostName |-> before[1].name]]>>]_vars

\* C15: in every reachable state, a player_ready from a connected player who
\* is in a room's roster and not yet ready, however the player entered the
\* room, can be handled and leaves that player ready in that room.
C15_ReadyReachesMember ==
    \A c \in Conns, r \in DOMAIN rooms :
        (/\ Live(c)
         /\ events < limit
         /\ HasKey(rooms[r].players, c)
         /\ ~Entry(rooms[r].players, c).ready) =>
            ENABLED (/\ PlayerReady(c)
                     /\ Entry(rooms'[r].players, c).ready)

\* set 2 of room `r` has run out: the match is FINISHED
Finished(r) ==
    /\ r \in DOMAIN rooms
    /\ rooms[r].matchState # NoMatchState
    /\ rooms[r].matchState.currentSet = 2
    /\ ~rooms[r].matchState.isRestPeriod
    /\ rooms[r].matchState.timeRemaining <= 0

\* C16: FINISHED is terminal.  The step that finishes a room's match stores
\* the live scores of its two players in set2Scores and broadcasts
\* match_results; once a room is finished it stays finished for as long as
\* it exists, none of its intervals ticks again, and no step sends another
\* match_results, timer_update, rest-period event or set2_starting.
C16_FinishedIsTerminal ==
    [][\A r \in DOMAIN rooms :
          /\ (~Finished(r) /\ Finished(r)') =>
                /\ \A p \in DOMAIN rooms'[r].matchState.set2Scores :
                      rooms'[r].matchState.set2Scores[p] = Get(rooms[r].scores, p)
                /\ out' = [i \in 1 .. Len(rooms'[r].players) |->
                             [to |-> rooms'[r].players[i].id, type |-> "match_results",
                              body |-> [matchState |-> rooms'[r].matchState]]]
          /\ Finished(r) =>
                /\ r \in DOMAIN rooms' => Finished(r)'
                /\ \A t \in 1 .. Len(timers) :
                      timers[t].room = r => timers'[t].ticks = timers[t].ticks
                /\ \A i \in 1 .. Len(out') :
                      out'[i].type \notin {"match_results", "timer_update", "set2_starting",
                                           "rest_period_starting", "rest_period_update"}]_vars

\* C17: a firing of an interval whose callback finds no room under its
\* roomId is a no-op: it raises nothing, sends nothing and changes no room.
C17_TickWithoutRoom ==
    [][\A t \in 1 .. Len(timers) :
          (/\ timers'[t].ticks > timers[t].ticks
           /\ ~RoomExists(roomId[timers[t].conn])) =>
              /\ err' = "none"
              /\ out' = <<>>
              /\ rooms' = rooms]_vars

\* C18: a join_room whose payload has no roomId is answered with an error
\* event to the sender and to nobody else, raises nothing, and leaves rooms,
\* the waiting queue and every connection's room association unchanged.
C18_MissingFieldReported ==
    [][\A c \in Conns, raw \in JoinInputs :
          (JoinRoom(c, raw, NameOf(c)) /\ raw.code = Undefined) =>
              /\ Len(out') = 1
              /\ out'[1].to = c
              /\ out'[1].type = "error"
              /\ err' = "none"
              /\ rooms' = rooms
              /\ waiting' = waiting
              /\ roomId' = roomId]_vars

\* C19: the two variants are equivalent step by step: whatever a handler run
\* does in the variant that is running is what the other variant does from
\* the same state on the same input.  The files differ only in what becomes of
\* an exception thrown inside a message handler and in what the close handler
\* does with the interval of a room it deletes, so the step must agree with
\* both variants on these.
C19_VariantsAgree ==
    [][\A v \in Variants :
          /\ \A c \in Conns, raw \in JoinInputs :
                (JoinRoom(c, raw, NameOf(c)) /\ err' # "none") => err' = HandlerThrowBy(v)
          /\ \A c \in Conns, y \in PaddleYs :
                (PaddleMove(c, y) /\ err' # "none") => err' = HandlerThrowBy(v)
          /\ \A c \in Conns :
                (/\ Disconnect(c)
                 /\ RoomExists(roomId[c])
                 /\ roomId[c] \notin DOMAIN rooms') =>
                    timers' = ClearOnEmptyBy(v, timers, rooms[roomId[c]].matchTimer)]_vars

\* the waiting players other than `c`, longest-waiting first
WaitingOthers(c) ==
    SelectSeq(waiting, LAMBDA e : e.id # c)

\* C20: a find_game handled while another player is waiting pairs the caller
\* with the longest-waiting other player: a new room appears whose roster is
\* the caller, as host, and that player, as non-host, both not ready; both
\* leave the waiting queue; the caller is sent game_found with isHost true and
\* the other player's name, the other game_found with isHost false and the
\* caller's name, both with the new room's id.
C20_Pairing ==
    [][\A c \in Conns :
          (FindGame(c, NameOf(c)) /\ WaitingOthers(c) # <<>>) =>
              LET o == WaitingOthers(c)[1]
                  name == NameOrDefault(NameOf(c))
                  r == nextRoom
              IN /\ DOMAIN rooms' = DOMAIN rooms \cup {r}
                 /\ r \notin DOMAIN rooms
                 /\ \A x \in DOMAIN rooms : rooms'[x] = rooms[x]
                 /\ rooms'[r].players
                       = <<[id |-> c, ready |-> FALSE, isHost |-> TRUE, name |-> name],
                           [id |-> o.id, ready |-> FALSE, isHost |-> FALSE, name |-> o.name]>>
                 /\ ~rooms'[r].gameStarted
                 /\ \A i \in 1 .. Len(waiting') : waiting'[i].id \notin {c, o.id}
                 /\ out' = <<[to |-> c, type |-> "game_found",
                              body |-> [roomId |-> r, isHost |-> TRUE, opponentName |-> o.name]],
                             [to |-> o.id, type |-> "game_found",
                              body |-> [roomId |-> r, isHost |-> FALSE, opponentName |-> name]]>>
                 /\ err' = "none"]_vars

\* two players were just paired: both were sent game_found for the same new
\* room, whose roster is the two of them, and the queue is empty
C20_Witness ==
    /\ Len(out) = 2
    /\ out[1].type = "game_found" /\ out[1].body.isHost
    /\ out[2].type = "game_found" /\ ~out[2].body.isHost
    /\ out[1].to # out[2].to
    /\ out[1].body.roomId = out[2].body.roomId
    /\ RoomExists(out[1].body.roomId)
    /\ KeySet(rooms[out[1].body.roomId].players) = {out[1].to, out[2].to}
    /\ waiting = <<>>

\* C21: a connection that closes while in the waiting queue leaves the queue
\* and the close sends nothing to the players still waiting; the queue holds
\* open connections only, and a room created by a later step has open
\* connections only in its roster.
C21_ClosedLeavesQueue ==
    [][/\ \A c \in Conns :
             (status[c] = "open" /\ status'[c] = "closed" /\ HasKey(waiting, c)) =>
                 /\ ~HasKey(waiting', c)
                 /\ \A i \in 1 .. Len(out') : out'[i].to \notin KeySet(waiting) \ {c}
       /\ \A i \in 1 .. Len(waiting') : status'[waiting'[i].id] = "open"
       /\ \A r \in (DOMAIN rooms') \ (DOMAIN rooms) :
             \A p \in KeySet(rooms'[r].players) : status'[p] = "open"]_vars

\* the first client connected, queued and closed: the queue is empty again
C21_Witness ==
    /\ events = 3
    /\ status = [c \in Conns |-> IF c = 1 THEN "closed" ELSE "new"]
    /\ waiting = <<>>
    /\ rooms = EmptyMap
    /\ out = <<>>

\* rooms that exist before and after the step with a match state in both
Matches ==
    {r \in (DOMAIN rooms) \cap (DOMAIN rooms') :
        rooms[r].matchState # NoMatchState /\ rooms'[r].matchState # NoMatchState}

\* the step on which set 1 of the match of room r ends
Set1Ends(r) ==
    /\ rooms[r].matchState.currentSet = 1
    /\ ~rooms[r].matchState.isRestPeriod
    /\ rooms'[r].matchState.isRestPeriod

\* C22: on the tick that ends set 1, set1Scores becomes the live score map of
\* just before the tick, the rest period opens with 30 seconds, every member
\* is sent rest_period_starting; afterwards no score_update, player_scored or
\* tick of the match changes set1Scores.
C22_Set1Snapshot ==
    [][\A r \in Matches :
          /\ Set1Ends(r) =>
                /\ rooms'[r].matchState.set1Scores = rooms[r].scores
                /\ rooms'[r].matchState.restTimeRemaining = RestSeconds
                /\ \A p \in KeySet(rooms'[r].players) :
                      \E i \in 1 .. Len(out') :
                          out'[i].to = p /\ out'[i].type = "rest_period_starting"
          /\ ((rooms[r].matchState.isRestPeriod \/ rooms[r].matchState.currentSet = 2)
                /\ \A c \in Conns : ~PlayerReady(c)) =>
                rooms'[r].matchState.set1Scores = rooms[r].matchState.set1Scores]_vars

\* C23: on the tick that ends set 1 the live score of every player is reset
\* to 0: the live score map is all zeros right after that tick.
C23_Set1EndResetsScores ==
    [][\A r \in Matches :
          Set1Ends(r) =>
              \A p \in DOMAIN rooms'[r].scores : rooms'[r].scores[p] = 0]_vars

\* every member of the room after the step was sent an event of this type
\* and body by the step
SentToMembers(r, type, b) ==
    \A p \in KeySet(rooms'[r].players) :
        \E i \in 1 .. Len(out') :
            out'[i].to = p /\ out'[i].type = type /\ out'[i].body = b

\* interval t fires on a room that is in its rest period
RestTick(t, dt) ==
    /\ Tick(t, dt)
    /\ RoomExists(roomId[timers[t].conn])
    /\ rooms[roomId[timers[t].conn]].matchState # NoMatchState
    /\ rooms[roomId[timers[t].conn]].matchState.isRestPeriod

\* C24: the rest tick that brings restTimeRemaining to 0 or below resets the
\* live scores of both players of the room to 0, sets currentSet 2,
\* timeRemaining 120, isRestPeriod false and sends set2_starting to every
\* member; every other rest tick changes restTimeRemaining only and sends
\* rest_period_update with the remaining value.
C24_RestTicks ==
    [][\A t \in 1 .. Len(timers), dt \in TickDelays :
          RestTick(t, dt) =>
              LET r == roomId[timers[t].conn]
                  ms == rooms'[r].matchState
              IN IF ms.restTimeRemaining <= 0
                 THEN /\ \A p \in KeySet(rooms'[r].players) : Get(rooms'[r].scores, p) = 0
                      /\ ms.currentSet = 2
                      /\ ms.timeRemaining = SetSeconds
                      /\ ~ms.isRestPeriod
                      /\ SentToMembers(r, "set2_starting", [matchState |-> ms])
                 ELSE /\ rooms'[r] = [rooms[r] EXCEPT
                                        !.matchState.restTimeRemaining = ms.restTimeRemaining]
                      /\ SentToMembers(r, "rest_period_update",
                                       [restTimeRemaining |-> ms.restTimeRemaining])]_vars

\* interval t fires on a room whose match has started and has not finished
RunningTick(t, dt) ==
    /\ Tick(t, dt)
    /\ Started(roomId[timers[t].conn])
    /\ rooms[roomId[timers[t].conn]].matchState # NoMatchState
    /\ ~Finished(roomId[timers[t].conn])

\* C25: a tick of a started, unfinished match subtracts the elapsed seconds
\* from exactly one of timeRemaining (active set) and restTimeRemaining (rest)
\* and lowers the other one never; whenever a room is in its rest period its
\* currentSet is 1 and its timeRemaining is 0 or less.
C25_OneCountdown ==
    [][/\ \A t \in 1 .. Len(timers), dt \in TickDelays :
             RunningTick(t, dt) =>
                 LET r == roomId[timers[t].conn]
                     ms == rooms[r].matchState
                     ms2 == rooms'[r].matchState
                     e == ElapsedSeconds(dt)
                 IN IF ms.isRestPeriod
                    THEN /\ ms2.restTimeRemaining = ms.restTimeRemaining - e
                         /\ ms2.timeRemaining >= ms.timeRemaining
                    ELSE /\ ms2.timeRemaining = ms.timeRemaining - e
                         /\ ms2.restTimeRemaining >= ms.restTimeRemaining
       /\ \A r \in DOMAIN rooms' :
             (rooms'[r].matchState # NoMatchState /\ rooms'[r].matchState.isRestPeriod) =>
                 /\ rooms'[r].matchState.currentSet = 1
                 /\ rooms'[r].matchState.timeRemaining <= 0]_vars

\* a match in the middle of its rest period after two rest ticks
C25_Witness ==
    /\ 1 \in DOMAIN rooms
    /\ rooms[1].gameStarted
    /\ rooms[1].matchState # NoMatchState
    /\ rooms[1].matchState.isRestPeriod
    /\ rooms[1].matchState.restTimeRemaining = RestSeconds - 2
    /\ \E i \in 1 .. Len(out) : out[i].type = "rest_period_update"

\* C26: paddle_move from a member of a room that has not started changes
\* nothing and sends nothing; in a started room it sets the sender's paddle y
\* and nothing else, and sends opponent_move with that y to the other member
\* only, never to the sender.
C26_PaddleMove ==
    [][\A c \in Conns, y \in PaddleYs :
          (PaddleMove(c, y) /\ RoomExists(roomId[c])
             /\ HasKey(rooms[roomId[c]].players, c)) =>
              LET r == roomId[c]
              IN /\ rooms[r].gameStarted
                 /\ rooms' = [rooms EXCEPT ![r].paddles = Put(@, c, y)]
                 /\ Get(rooms'[r].paddles, c) = y
                 /\ err' = "none"
                 /\ \A i \in 1 .. Len(out') :
                       /\ out'[i] = Msg(out'[i].to, "opponent_move", [y |-> y])
                       /\ out'[i].to \in KeySet(rooms[r].players) \ {c}
                 /\ \A p \in KeySet(rooms[r].players) \ {c} :
                       \E i \in 1 .. Len(out') : out'[i].to = p]_vars

\* every member of room r before the step was sent exactly one ball_moving by
\* the step, carrying the room's ball after the step
BallSentOnce(r) ==
    \A p \in KeySet(rooms[r].players) :
        \E i \in 1 .. Len(out') :
            /\ out'[i] = Msg(p, "ball_moving", [ball |-> rooms'[r].ball])
            /\ \A j \in 1 .. Len(out') :
                  (out'[j].to = p /\ out'[j].type = "ball_moving") => j = i

\* C27: when the release of a started room that still exists fires, the
\* room's ball is re-centred with speedX and speedY each 10 or -10 and every
\* member is sent ball_moving once; when the repeat fires 500 ms later every
\* member is sent ball_moving once more; no other step sends ball_moving.
C27_BallRelease ==
    [][/\ \A i \in 1 .. Len(timeouts) :
             (BallRelease(i) /\ RoomExists(timeouts[i].room)) =>
                 LET r == timeouts[i].room
                 IN /\ rooms'[r].ball.x = BallCenterX
                    /\ rooms'[r].ball.y = BallCenterY
                    /\ rooms'[r].ball.speedX \in {BallSpeed, -BallSpeed}
                    /\ rooms'[r].ball.speedY \in {BallSpeed, -BallSpeed}
                    /\ BallSentOnce(r)
                    /\ \E j \in 1 .. Len(timeouts') :
                          timeouts'[j] = [conn |-> timeouts[i].conn, room |-> r,
                                          stage |-> "repeat"]
       /\ \A i \in 1 .. Len(timeouts) :
             (BallRepeat(i) /\ RoomExists(timeouts[i].room)) =>
                 BallSentOnce(timeouts[i].room)
       /\ (\A i \in 1 .. Len(timeouts) : ~BallRelease(i) /\ ~BallRepeat(i)) =>
             \A j \in 1 .. Len(out') : out'[j].type # "ball_moving"]_vars

\* C28: when the room a match started in is gone before its 2-second release
\* or its 500 ms repeat fires, the callback changes the ball of no room and
\* sends nothing.
C28_ReleaseWithoutRoom ==
    [][\A i \in 1 .. Len(timeouts) :
          ((BallRelease(i) \/ BallRepeat(i)) /\ ~RoomExists(timeouts[i].room)) =>
              /\ rooms' = rooms
              /\ out' = <<>>
              /\ err' = "none"]_vars

\* both players of the started room left and its release has fired since:
\* the room and the release are gone and nothing was sent
C28_Witness ==
    /\ events = OpeningLen + 3
    /\ rooms = EmptyMap
    /\ timeouts = <<>>
    /\ status[1] = "closed" /\ status[2] = "closed"
    /\ out = <<>>

\* C29: during set 1 the seconds subtracted from timeRemaining since the
\* start of the match differ from the time that has really passed up to the
\* last tick by less than one second, also when the ticks come late by a
\* fraction of a second.
C29_CountdownTracksClock ==
    (AfterOpening /\ Len(timers) = 1 /\ 1 \in DOMAIN rooms
        /\ rooms[1].matchState # NoMatchState
        /\ rooms[1].matchState.currentSet = 1
        /\ ~rooms[1].matchState.isRestPeriod) =>
        LET passed == timers[1].ticks * LateTickMs
            subtracted == (SetSeconds - rooms[1].matchState.timeRemaining) * MsPerSecond
        IN passed - subtracted < MsPerSecond /\ subtracted - passed < MsPerSecond

\* where a room is in the course of a match
Phase(room) ==
    IF room.matchState = NoMatchState THEN "lobby"
    ELSE IF room.matchState.isRestPeriod THEN "rest"
    ELSE IF room.matchState.currentSet = 1 THEN "set1"
    ELSE "set2"

PhaseEvents ==
    {"timer_update", "rest_period_starting", "rest_period_update", "set2_starting",
     "match_results"}

\* the step sent an event of this type
Sends(type) ==
    \E i \in 1 .. Len(out') : out'[i].type = type

\* the step sent an event of this type to every member of room r
SendsToAll(r, type) ==
    \A p \in KeySet(rooms'[r].players) :
        \E i \in 1 .. Len(out') : out'[i].to = p /\ out'[i].type = type

\* C30: the phase events of a room come in order. match_results is sent only
\* in set 2, set2_starting only on leaving the rest, rest_period_starting only
\* on leaving set 1, rest_period_update only inside the rest, timer_update
\* with currentSet 2 only in set 2; a room enters set 1 only with
\* game_starting, the rest only from set 1 with rest_period_starting, and
\* set 2 only from the rest with set2_starting, each sent to every member.
C30_PhaseOrder ==
    [][/\ \A t \in 1 .. Len(timers), dt \in TickDelays :
             Tick(t, dt) =>
                 LET r == roomId[timers[t].conn]
                 IN /\ Sends("match_results") => Phase(rooms[r]) = "set2"
                    /\ Sends("set2_starting") =>
                          Phase(rooms[r]) = "rest" /\ Phase(rooms'[r]) = "set2"
                    /\ Sends("rest_period_starting") =>
                          Phase(rooms[r]) = "set1" /\ Phase(rooms'[r]) = "rest"
                    /\ Sends("rest_period_update") =>
                          Phase(rooms[r]) = "rest" /\ Phase(rooms'[r]) = "rest"
                    /\ \A i \in 1 .. Len(out') :
                          (out'[i].type = "timer_update" /\ out'[i].body.currentSet = 2) =>
                              Phase(rooms[r]) = "set2"
       /\ (\A t \in 1 .. Len(timers), dt \in TickDelays : ~Tick(t, dt)) =>
             \A type \in PhaseEvents : ~Sends(type)
       /\ \A r \in (DOMAIN rooms) \cap (DOMAIN rooms') :
             Phase(rooms'[r]) # Phase(rooms[r]) =>
                 /\ Phase(rooms'[r]) # "lobby"
                 /\ Phase(rooms'[r]) = "set1" => SendsToAll(r, "game_starting")
                 /\ Phase(rooms'[r]) = "rest" =>
                       Phase(rooms[r]) = "set1" /\ SendsToAll(r, "rest_period_starting")
                 /\ Phase(rooms'[r]) = "set2" =>
                       Phase(rooms[r]) = "rest" /\ SendsToAll(r, "set2_starting")]_vars

\* a match that ran set 1, the rest and set 2: its results were just sent
C30_Witness ==
    /\ Finished(1)
    /\ \E t \in 1 .. Len(timers) : timers[t].ticks = 3
    /\ \A p \in KeySet(rooms[1].players) :
          \E i \in 1 .. Len(out) : out[i].to = p /\ out[i].type = "match_results"

\* the room interval t works on when it fires
TimerRoom(t) ==
    roomId[timers[t].conn]

\* C31: a room never has two running match timers: no two live intervals
\* tick the same room, also after repeated player_ready events.
C31_OneTimerPerRoom ==
    \A t1 \in 1 .. Len(timers), t2 \in 1 .. Len(timers) :
        (timers[t1].live /\ timers[t2].live
            /\ RoomExists(TimerRoom(t1)) /\ TimerRoom(t1) = TimerRoom(t2)) => t1 = t2

\* connection c was refused by a full room: its roomId names the room and it
\* is not on the roster
Refused(c) ==
    /\ status[c] = "open"
    /\ RoomExists(roomId[c])
    /\ ~HasKey(rooms[roomId[c]].players, c)

\* the step is a run of one of the in-room handlers of connection c
InRoomHandler(c) ==
    \/ \E sc \in ScoreInputs(c) : ScoreUpdate(c, sc)
    \/ \E p \in Conns : PlayerScored(c, p)
    \/ PlayerReady(c)
    \/ \E y \in PaddleYs : PaddleMove(c, y)
    \/ \E b \in Balls : BallUpdate(c, b)
    \/ Disconnect(c)

\* C32: a connection refused by a full room has no later effect on it: its
\* score_update, player_scored, player_ready, paddle_move, ball_update and
\* disconnect leave the room as it was and send nothing to its members.
C32_RefusedHasNoEffect ==
    [][\A c \in Conns :
          (Refused(c) /\ InRoomHandler(c)) =>
              /\ rooms'[roomId[c]] = rooms[roomId[c]]
              /\ \A i \in 1 .. Len(out') :
                    out'[i].to \notin KeySet(rooms[roomId[c]].players)]_vars

\* C33: no room is leaked: every room of the table has a roster member whose
\* connection is open.
C33_NoLeakedRoom ==
    \A r \in DOMAIN rooms :
        \E p \in KeySet(rooms[r].players) : status[p] = "open"

\* the step touched no room but r and sent to members of r only
OnlyRoom(r) ==
    /\ DOMAIN rooms' = DOMAIN rooms
    /\ \A x \in DOMAIN rooms : x # r => rooms'[x] = rooms[x]
    /\ \A i \in 1 .. Len(out') :
          RoomExists(r) /\ out'[i].to \in KeySet(rooms[r].players)

\* C34: the match timer and the ball release callbacks of a start read and
\* change only the room that started and send only to its members, also when
\* the connection whose player_ready started it has moved to another room
\* since; while that room exists they run without error.
C34_CallbacksKeepTheirRoom ==
    [][/\ \A t \in 1 .. Len(timers), dt \in TickDelays :
             Tick(t, dt) =>
                 /\ OnlyRoom(timers[t].room)
                 /\ RoomExists(timers[t].room) => err' = "none"
       /\ \A i \in 1 .. Len(timeouts) :
             (BallRelease(i) \/ BallRepeat(i)) =>
                 /\ OnlyRoom(timeouts[i].room)
                 /\ RoomExists(timeouts[i].room) => err' = "none"]_vars

\* C35: every roster member of a started room has an entry in the room's
\* paddles and in its scores, so that a paddle_move of any member completes.
C35_MembersHavePaddles ==
    \A r \in DOMAIN rooms :
        rooms[r].gameStarted =>
            \A p \in KeySet(rooms[r].players) :
                p \in DOMAIN rooms[r].paddles /\ p \in DOMAIN rooms[r].scores

\* C36: after every handler the quick-match queue holds at most one entry:
\* two distinct players are never both left waiting.
C36_QueueAtMostOne ==
    Len(waiting) <= 1

\* two players were paired into a room and a third one, who asked after
\* them, is the only one waiting
C36_Witness ==
    /\ Len(waiting) = 1
    /\ \E r \in DOMAIN rooms :
          /\ Len(rooms[r].players) = 2
          /\ waiting[1].id \notin KeySet(rooms[r].players)
    /\ out = <<Msg(waiting[1].id, "waiting_for_opponent", NoBody)>>

\* C37: no room has more than one player with isHost = true.
C37_AtMostOneHost ==
    \A r \in DOMAIN rooms :
        \A i \in 1 .. Len(rooms[r].players), j \in 1 .. Len(rooms[r].players) :
            (rooms[r].players[i].isHost /\ rooms[r].players[j].isHost) => i = j

\* a second player just joined a created room: the creator is the host, the
\* joiner is not
C37_Witness ==
    \E r \in DOMAIN rooms :
        /\ Len(rooms[r].players) = 2
        /\ rooms[r].players[1].isHost
        /\ ~rooms[r].players[2].isHost
        /\ \E i \in 1 .. Len(out) :
              out[i].type = "room_joined" /\ out[i].to = rooms[r].players[2].id

=============================================================================
